---- MODULE Spec2Model ----
(***************************************************************************)
(* Model of the HTTP server of src/src/main.rs and src/src/http.rs.        *)
(*                                                                         *)
(* Text is modelled at the level of single characters: a string is a      *)
(* sequence of one-character strings, so that trimming, splitting,        *)
(* prefix matching, decimal formatting and decimal parsing are computed   *)
(* the way the code computes them.  All characters of the model are       *)
(* ASCII, so the byte length of a text is the length of its sequence.     *)
(*                                                                         *)
(* Spec is the server under a workload of connections that are accepted   *)
(* one after the other; each peer sends a request of RequestMenu in any   *)
(* chunking and may close its sending side at any moment.  EnvSpec adds    *)
(* the environment of the process: a command line that clap rejects and   *)
(* other processes that remove files.  ConcSpec runs two connections at   *)
(* a time, a download and an upload of the same file.                     *)
(***************************************************************************)
EXTENDS Integers, Sequences, FiniteSets, TLC

(***************************************************************************)
(* Bounds of the model.                                                    *)
(***************************************************************************)
\* number of connection slots (tasks spawned by main that may be live)
MaxConns == 2

(***************************************************************************)
(* Program constants.                                                      *)
(***************************************************************************)
\* main.rs:275  let mut buf = vec![0; 8192]  (also tokio's default buffer
\* capacity of BufReader, BufWriter and io::copy)
BufSize == 8192

(***************************************************************************)
(* Characters and text helpers (Rust's str methods).                       *)
(***************************************************************************)
CR == "\r"
LF == "\n"
SP == " "
TAB == "\t"
FF == "\f"
CRLF == <<CR, LF>>

\* char::is_whitespace restricted to the ASCII characters of the model
\* (used by str::trim, str::trim_end)
IsWhitespace(ch) == ch \in {SP, TAB, LF, FF, CR}

\* u8::is_ascii_whitespace (used by str::split_ascii_whitespace): space,
\* horizontal tab, line feed, form feed, carriage return
IsAsciiWhitespace(ch) == ch \in {SP, TAB, LF, FF, CR}

Min(a, b) == IF a <= b THEN a ELSE b

\* s[from..] of Rust: the suffix of s that starts after `from` characters
Skip(s, from) == SubSeq(s, from + 1, Len(s))

\* s[..to] of Rust: the first `to` characters of s
Take(s, to) == SubSeq(s, 1, to)

\* str::starts_with
StartsWith(s, prefix) ==
    /\ Len(prefix) <= Len(s)
    /\ Take(s, Len(prefix)) = prefix

\* position of the first occurrence of ch in s, 0 when there is none
FirstIndexOf(s, ch) ==
    IF \E i \in 1..Len(s) : s[i] = ch
    THEN CHOOSE i \in 1..Len(s) : s[i] = ch /\ \A j \in 1..(i - 1) : s[j] # ch
    ELSE 0

\* str::trim_start
TrimStart(s) ==
    IF \A i \in 1..Len(s) : IsWhitespace(s[i])
    THEN <<>>
    ELSE LET first == CHOOSE i \in 1..Len(s) :
                          /\ ~IsWhitespace(s[i])
                          /\ \A j \in 1..(i - 1) : IsWhitespace(s[j])
         IN  SubSeq(s, first, Len(s))

\* str::trim_end
TrimEnd(s) ==
    IF \A i \in 1..Len(s) : IsWhitespace(s[i])
    THEN <<>>
    ELSE LET last == CHOOSE i \in 1..Len(s) :
                         /\ ~IsWhitespace(s[i])
                         /\ \A j \in (i + 1)..Len(s) : IsWhitespace(s[j])
         IN  SubSeq(s, 1, last)

\* str::trim
Trim(s) == TrimStart(TrimEnd(s))

\* str::split_ascii_whitespace, collected: the maximal runs of characters
\* that are not ASCII whitespace, in order
RECURSIVE SplitAsciiWhitespace(_)
SplitAsciiWhitespace(s) ==
    IF \A i \in 1..Len(s) : IsAsciiWhitespace(s[i])
    THEN <<>>
    ELSE LET first == CHOOSE i \in 1..Len(s) :
                          /\ ~IsAsciiWhitespace(s[i])
                          /\ \A j \in 1..(i - 1) : IsAsciiWhitespace(s[j])
             rest  == SubSeq(s, first, Len(s))
             stop  == IF \E i \in 1..Len(rest) : IsAsciiWhitespace(rest[i])
                      THEN (CHOOSE i \in 1..Len(rest) :
                                /\ IsAsciiWhitespace(rest[i])
                                /\ \A j \in 1..(i - 1) : ~IsAsciiWhitespace(rest[j])) - 1
                      ELSE Len(rest)
         IN  <<Take(rest, stop)>> \o SplitAsciiWhitespace(Skip(rest, stop))

LowerLetters == <<"a","b","c","d","e","f","g","h","i","j","k","l","m",
                  "n","o","p","q","r","s","t","u","v","w","x","y","z">>
UpperLetters == <<"A","B","C","D","E","F","G","H","I","J","K","L","M",
                  "N","O","P","Q","R","S","T","U","V","W","X","Y","Z">>

\* u8::to_ascii_lowercase
ToAsciiLower(ch) ==
    IF \E i \in 1..26 : UpperLetters[i] = ch
    THEN LowerLetters[CHOOSE i \in 1..26 : UpperLetters[i] = ch]
    ELSE ch

\* str::eq_ignore_ascii_case
EqIgnoreAsciiCase(a, b) ==
    /\ Len(a) = Len(b)
    /\ \A i \in 1..Len(a) : ToAsciiLower(a[i]) = ToAsciiLower(b[i])

Digits == <<"0","1","2","3","4","5","6","7","8","9">>

IsDigit(ch) == \E i \in 1..10 : Digits[i] = ch

DigitValue(ch) == (CHOOSE i \in 1..10 : Digits[i] = ch) - 1

\* Display of an unsigned integer: format!("{}", n)
RECURSIVE ToDec(_)
ToDec(n) ==
    IF n < 10 THEN <<Digits[n + 1]>>
    ELSE ToDec(n \div 10) \o <<Digits[(n % 10) + 1]>>

RECURSIVE DecValue(_)
DecValue(ds) ==
    IF ds = <<>> THEN 0
    ELSE 10 * DecValue(Take(ds, Len(ds) - 1)) + DigitValue(ds[Len(ds)])

\* str::parse::<usize>: an optional '+' followed by at least one decimal
\* digit and nothing else.  The result is [ok |-> TRUE, value |-> n] or
\* [ok |-> FALSE, value |-> 0] (ParseIntError).  The texts of the model are
\* far too short to overflow usize.
ParseUsize(s) ==
    LET ds == IF s # <<>> /\ s[1] = "+" THEN Skip(s, 1) ELSE s
    IN  IF ds # <<>> /\ \A i \in 1..Len(ds) : IsDigit(ds[i])
        THEN [ok |-> TRUE, value |-> DecValue(ds)]
        ELSE [ok |-> FALSE, value |-> 0]

(***************************************************************************)
(* Text literals of the program.                                           *)
(***************************************************************************)
HTTP_1_1 == <<"H", "T", "T", "P", "/", "1", ".", "1">>
S_GET == <<"G", "E", "T">>
S_POST == <<"P", "O", "S", "T">>
PATH_INDEX == <<"/">>
PATH_USER_AGENT == <<"/", "u", "s", "e", "r", "-", "a", "g", "e", "n", "t">>
PREFIX_ECHO == <<"/", "e", "c", "h", "o", "/">>
PREFIX_FILES == <<"/", "f", "i", "l", "e", "s", "/">>
KEY_USER_AGENT == <<"U", "s", "e", "r", "-", "A", "g", "e", "n", "t">>
KEY_CONTENT_LENGTH == <<"C", "o", "n", "t", "e", "n", "t", "-", "L", "e", "n", "g", "t", "h">>
TEXT_PLAIN == <<"t", "e", "x", "t", "/", "p", "l", "a", "i", "n">>
APPLICATION_OCTET_STREAM == <<"a", "p", "p", "l", "i", "c", "a", "t", "i", "o", "n", "/", "o", "c", "t", "e", "t", "-", "s", "t", "r", "e", "a", "m">>
HDR_CONTENT_TYPE == <<"C", "o", "n", "t", "e", "n", "t", "-", "T", "y", "p", "e">>
HDR_CONTENT_LENGTH == <<"C", "o", "n", "t", "e", "n", "t", "-", "L", "e", "n", "g", "t", "h">>
DBG_Ok == <<"O", "k">>
DBG_Created == <<"C", "r", "e", "a", "t", "e", "d">>
DBG_BadRequest == <<"B", "a", "d", "R", "e", "q", "u", "e", "s", "t">>
DBG_NotFound == <<"N", "o", "t", "F", "o", "u", "n", "d">>
DBG_InternalServerError == <<"I", "n", "t", "e", "r", "n", "a", "l", "S", "e", "r", "v", "e", "r", "E", "r", "r", "o", "r">>
STR_OK == <<"O", "K">>

(***************************************************************************)
(* http.rs: HttpStatus, HttpResponse, HttpContent.                         *)
(***************************************************************************)
HttpStatus == {"Ok", "Created", "BadRequest", "NotFound", "InternalServerError"}

\* `status as u16`: the discriminants of the enum
StatusCode(status) ==
    CASE status = "Ok" -> 200
      [] status = "Created" -> 201
      [] status = "BadRequest" -> 400
      [] status = "NotFound" -> 404
      [] status = "InternalServerError" -> 500

\* impl Into<&'static str> for HttpStatus: the reason phrases
StatusInto(status) ==
    CASE status = "Ok" -> STR_OK
      [] status = "Created" -> DBG_Created
      [] status = "BadRequest" -> DBG_BadRequest
      [] status = "NotFound" -> DBG_NotFound
      [] status = "InternalServerError" -> DBG_InternalServerError

\* #[derive(Debug)] on HttpStatus: format!("{:?}", status) is the name of
\* the variant
StatusDebug(status) ==
    CASE status = "Ok" -> DBG_Ok
      [] status = "Created" -> DBG_Created
      [] status = "BadRequest" -> DBG_BadRequest
      [] status = "NotFound" -> DBG_NotFound
      [] status = "InternalServerError" -> DBG_InternalServerError

\* Option<String>
NoneStr == [some |-> FALSE, value |-> <<>>]
SomeStr(s) == [some |-> TRUE, value |-> s]

\* Option<Box<dyn HttpContent>>: None, PlainTextContent or FileContent
NoContent == [kind |-> "none", text |-> <<>>, path |-> <<>>]
PlainTextContent(text) == [kind |-> "text", text |-> text, path |-> <<>>]
FileContent(path) == [kind |-> "file", text |-> <<>>, path |-> path]

\* HttpResponse::new
HttpResponse(status) ==
    [status |-> status, status_message |-> NoneStr, headers |-> {},
     content |-> NoContent]

\* HttpResponse::with_status_message
with_status_message(response, message) ==
    [response EXCEPT !.status_message = SomeStr(message)]

\* HttpResponse::with_content
with_content(response, content) == [response EXCEPT !.content = content]

\* HttpContent::content_type
HttpContent_content_type(content) ==
    IF content.kind = "text" THEN TEXT_PLAIN ELSE APPLICATION_OCTET_STREAM

(***************************************************************************)
(* The filesystem under the base directory: a file is absent or holds      *)
(* bytes.  Paths are the remainders joined to the base directory.          *)
(***************************************************************************)
AbsentFile == [exists |-> FALSE, data |-> <<>>]
RegularFile(data) == [exists |-> TRUE, data |-> data]

\* HttpContent::content_length for a content whose metadata query succeeds:
\* the length of the text, or the current size of the file
HttpContent_content_length(content, filesys) ==
    IF content.kind = "text" THEN Len(content.text)
    ELSE Len(filesys[content.path].data)

\* the bytes behind the reader that HttpContent::content returns
HttpContent_content(content, filesys) ==
    IF content.kind = "text" THEN content.text
    ELSE filesys[content.path].data

(***************************************************************************)
(* main.rs: configuration, paths and the filesystem.                       *)
(***************************************************************************)
BASE_DIR == <<"/", "d">>
FILE_F == <<"/", "d", "/", "f">>
FILE_G == <<"/", "d", "/", "g">>
OLD_DATA == <<"o", "l", "d">>

\* the directories that exist on the filesystem: the base directory
\* (PathBuf::join of the base with an empty remainder ends in a slash)
Directories == {BASE_DIR, BASE_DIR \o <<"/">>}

\* PathBuf::from(directory).join(remainder): an absolute remainder replaces
\* the base, otherwise the remainder is appended after a separator
JoinPath(base, remainder) ==
    IF remainder # <<>> /\ remainder[1] = "/" THEN remainder
    ELSE IF base # <<>> /\ base[Len(base)] = "/" THEN base \o remainder
    ELSE base \o <<"/">> \o remainder

\* the file at a path, absent when nothing was ever stored there
FileAt(filesys, path) ==
    IF path \in DOMAIN filesys THEN filesys[path] ELSE AbsentFile

\* Path::exists
PathExists(filesys, path) == path \in Directories \/ FileAt(filesys, path).exists

\* File::create: create or truncate
CreateFile(filesys, path) ==
    [p \in DOMAIN filesys \cup {path} |->
        IF p = path THEN RegularFile(<<>>) ELSE filesys[p]]

\* the data of a file after `chunk` was written at byte offset `pos` (a gap
\* left by a truncation is filled with zero bytes)
WriteAt(data, pos, chunk) ==
    LET newLen == IF pos + Len(chunk) > Len(data) THEN pos + Len(chunk)
                  ELSE Len(data)
    IN  [i \in 1..newLen |->
            IF i > pos /\ i <= pos + Len(chunk) THEN chunk[i - pos]
            ELSE IF i <= Len(data) THEN data[i]
            ELSE "NUL"]

\* file.write_all(chunk) through a handle positioned at `pos`
WriteFile(filesys, path, pos, chunk) ==
    [p \in DOMAIN filesys \cup {path} |->
        IF p = path
        THEN RegularFile(WriteAt(FileAt(filesys, path).data, pos, chunk))
        ELSE filesys[p]]

(***************************************************************************)
(* Requests the peers send.  A request is kept in structured form (what    *)
(* the peer meant) and put on the wire by Encode.                          *)
(***************************************************************************)
RequestMenu == <<
    \* 1: GET / HTTP/1.1 | Host: x
    [method |-> <<"G", "E", "T">>, path |-> <<"/">>,
     version |-> <<"H", "T", "T", "P", "/", "1", ".", "1">>,
     headers |-> <<<<"H", "o", "s", "t", ":", " ", "x">>>>,
     body |-> <<>>],
    \* 2: GET /echo/abc HTTP/1.1
    [method |-> <<"G", "E", "T">>, path |-> <<"/", "e", "c", "h", "o", "/", "a", "b", "c">>,
     version |-> <<"H", "T", "T", "P", "/", "1", ".", "1">>,
     headers |-> <<>>,
     body |-> <<>>],
    \* 3: GET /echo/
    [method |-> <<"G", "E", "T">>, path |-> <<"/", "e", "c", "h", "o", "/">>,
     version |-> <<>>,
     headers |-> <<>>,
     body |-> <<>>],
    \* 4: GET /echo/a b
    [method |-> <<"G", "E", "T">>, path |-> <<"/", "e", "c", "h", "o", "/", "a", " ", "b">>,
     version |-> <<>>,
     headers |-> <<>>,
     body |-> <<>>],
    \* 5: GET /user-agent | User-Agent: ua
    [method |-> <<"G", "E", "T">>, path |-> <<"/", "u", "s", "e", "r", "-", "a", "g", "e", "n", "t">>,
     version |-> <<>>,
     headers |-> <<<<"U", "s", "e", "r", "-", "A", "g", "e", "n", "t", ":", " ", "u", "a">>>>,
     body |-> <<>>],
    \* 6: GET /user-agent | user-agent: ua
    [method |-> <<"G", "E", "T">>, path |-> <<"/", "u", "s", "e", "r", "-", "a", "g", "e", "n", "t">>,
     version |-> <<>>,
     headers |-> <<<<"u", "s", "e", "r", "-", "a", "g", "e", "n", "t", ":", " ", "u", "a">>>>,
     body |-> <<>>],
    \* 7: GET /user-agent |  User-Agent :  u a 
    [method |-> <<"G", "E", "T">>, path |-> <<"/", "u", "s", "e", "r", "-", "a", "g", "e", "n", "t">>,
     version |-> <<>>,
     headers |-> <<<<" ", "U", "s", "e", "r", "-", "A", "g", "e", "n", "t", " ", ":", " ", " ", "u", " ", "a", " ">>>>,
     body |-> <<>>],
    \* 8: GET /user-agent | User-Agent: a | User-Agent: b:c
    [method |-> <<"G", "E", "T">>, path |-> <<"/", "u", "s", "e", "r", "-", "a", "g", "e", "n", "t">>,
     version |-> <<>>,
     headers |-> <<<<"U", "s", "e", "r", "-", "A", "g", "e", "n", "t", ":", " ", "a">>, <<"U", "s", "e", "r", "-", "A", "g", "e", "n", "t", ":", " ", "b", ":", "c">>>>,
     body |-> <<>>],
    \* 9: GET /user-agent
    [method |-> <<"G", "E", "T">>, path |-> <<"/", "u", "s", "e", "r", "-", "a", "g", "e", "n", "t">>,
     version |-> <<>>,
     headers |-> <<>>,
     body |-> <<>>],
    \* 10: GET /files/f
    [method |-> <<"G", "E", "T">>, path |-> <<"/", "f", "i", "l", "e", "s", "/", "f">>,
     version |-> <<>>,
     headers |-> <<>>,
     body |-> <<>>],
    \* 11: GET /files/g
    [method |-> <<"G", "E", "T">>, path |-> <<"/", "f", "i", "l", "e", "s", "/", "g">>,
     version |-> <<>>,
     headers |-> <<>>,
     body |-> <<>>],
    \* 12: GET /other
    [method |-> <<"G", "E", "T">>, path |-> <<"/", "o", "t", "h", "e", "r">>,
     version |-> <<>>,
     headers |-> <<>>,
     body |-> <<>>],
    \* 13: get /other
    [method |-> <<"g", "e", "t">>, path |-> <<"/", "o", "t", "h", "e", "r">>,
     version |-> <<>>,
     headers |-> <<>>,
     body |-> <<>>],
    \* 14: POST /files/f | Content-Length: 0
    [method |-> <<"P", "O", "S", "T">>, path |-> <<"/", "f", "i", "l", "e", "s", "/", "f">>,
     version |-> <<>>,
     headers |-> <<<<"C", "o", "n", "t", "e", "n", "t", "-", "L", "e", "n", "g", "t", "h", ":", " ", "0">>>>,
     body |-> <<>>],
    \* 15: POST /files/f | Content-Length: 2 | body xy
    [method |-> <<"P", "O", "S", "T">>, path |-> <<"/", "f", "i", "l", "e", "s", "/", "f">>,
     version |-> <<>>,
     headers |-> <<<<"C", "o", "n", "t", "e", "n", "t", "-", "L", "e", "n", "g", "t", "h", ":", " ", "2">>>>,
     body |-> <<"x", "y">>],
    \* 16: POST /files/f | Content-Length: 1 | body xy
    [method |-> <<"P", "O", "S", "T">>, path |-> <<"/", "f", "i", "l", "e", "s", "/", "f">>,
     version |-> <<>>,
     headers |-> <<<<"C", "o", "n", "t", "e", "n", "t", "-", "L", "e", "n", "g", "t", "h", ":", " ", "1">>>>,
     body |-> <<"x", "y">>],
    \* 17: POST /files/f
    [method |-> <<"P", "O", "S", "T">>, path |-> <<"/", "f", "i", "l", "e", "s", "/", "f">>,
     version |-> <<>>,
     headers |-> <<>>,
     body |-> <<>>],
    \* 18: POST /files/f | Content-Length: x
    [method |-> <<"P", "O", "S", "T">>, path |-> <<"/", "f", "i", "l", "e", "s", "/", "f">>,
     version |-> <<>>,
     headers |-> <<<<"C", "o", "n", "t", "e", "n", "t", "-", "L", "e", "n", "g", "t", "h", ":", " ", "x">>>>,
     body |-> <<>>],
    \* 19: POST /other
    [method |-> <<"P", "O", "S", "T">>, path |-> <<"/", "o", "t", "h", "e", "r">>,
     version |-> <<>>,
     headers |-> <<>>,
     body |-> <<>>],
    \* 20: PUT /
    [method |-> <<"P", "U", "T">>, path |-> <<"/">>,
     version |-> <<>>,
     headers |-> <<>>,
     body |-> <<>>],
    \* 21: GET / | bad
    [method |-> <<"G", "E", "T">>, path |-> <<"/">>,
     version |-> <<>>,
     headers |-> <<<<"b", "a", "d">>>>,
     body |-> <<>>]
>>

RECURSIVE EncodeHeaders(_)
EncodeHeaders(lines) ==
    IF lines = <<>> THEN <<>>
    ELSE Head(lines) \o CRLF \o EncodeHeaders(Tail(lines))

\* METHOD SP PATH [SP VERSION] CRLF (HEADER CRLF)* CRLF BODY
Encode(r) ==
    r.method \o <<SP>> \o r.path
      \o (IF r.version = <<>> THEN <<>> ELSE <<SP>> \o r.version) \o CRLF
      \o EncodeHeaders(r.headers) \o CRLF \o r.body

(***************************************************************************)
(* State.                                                                  *)
(***************************************************************************)
Conns == 1..MaxConns

VARIABLES
    directory,  \* CONFIG: Args.directory, an Option<String>
    fs,         \* the filesystem: path -> file
    conns,      \* the connection tasks and their sockets
    process     \* the server process: its command line, CONFIG, its life

vars == <<directory, fs, conns, process>>

\* HashMap::new()
EmptyMap == <<>>

\* an insert that keeps the first value stored under a key
MapInsert_keep_first(map, key, value) ==
    [k \in DOMAIN map \cup {key} |-> IF k \in DOMAIN map THEN map[k] ELSE value]

\* HashMap::insert: the last value stored under a key is kept
MapInsert(map, key, value) ==
    [k \in DOMAIN map \cup {key} |-> IF k = key THEN value ELSE map[k]]

\* HashMap::get(..).cloned()
MapGet(map, key) ==
    IF key \in DOMAIN map THEN SomeStr(map[key]) ELSE NoneStr

\* a connection slot before accept / after the task and its streams are gone
IdleConn ==
    [pc |-> "Idle",
     req |-> 0,                 \* the request the peer means to send (menu index)
     truncated |-> FALSE,       \* the peer closed before sending all of it
     wire |-> <<>>,             \* bytes the peer has not sent yet
     peerClosed |-> FALSE,      \* the peer shut down its sending side
     reader |-> <<>>,           \* bytes received and not yet consumed
     request_line |-> <<>>,
     headers |-> EmptyMap,
     method |-> "None",
     path |-> <<>>,
     http_version |-> <<>>,
     dest_path |-> <<>>,
     content_length |-> 0,
     bytes_read |-> 0,
     response |-> HttpResponse("Ok"),
     content_pos |-> 0,         \* position of the content reader
     writer |-> <<>>,           \* BufWriter: bytes buffered, not yet written
     sent |-> <<>>,             \* bytes written to the socket
     error |-> "none",
     snapshot |-> <<>>,         \* history: the file when its length was queried
     raced |-> FALSE]           \* history: the file was written during the send

Terminal == {"ResponseSent", "Failed", "Panicked"}

Live(c) == conns[c].pc \notin Terminal \cup {"Idle"}

\* main.rs:24-28: the process after the listener is bound: it runs, and the
\* Lazy behind CONFIG has not been forced
Started(args_ok) ==
    [running |-> TRUE, args_ok |-> args_ok, config_init |-> FALSE]

\* the server started with a command line that clap accepts
Init ==
    /\ directory \in {NoneStr, SomeStr(BASE_DIR)}
    /\ fs \in [{FILE_F, FILE_G} -> {AbsentFile, RegularFile(OLD_DATA)}]
    /\ conns = [c \in Conns |-> IdleConn]
    /\ process = Started(TRUE)

(***************************************************************************)
(* The peer and the accept loop.                                           *)
(***************************************************************************)
\* main.rs:29-32: accept a connection and spawn its task.  The peer means to
\* send request i of the menu.  Connections are served one after the other.
Accept(c) ==
    /\ process.running
    /\ \A d \in Conns : conns[d].pc = "Idle"
    /\ \E i \in 1..Len(RequestMenu) :
          conns' = [conns EXCEPT ![c] =
                       [IdleConn EXCEPT !.pc = "Accepted", !.req = i,
                                        !.wire = Encode(RequestMenu[i])]]
    /\ UNCHANGED <<directory, fs, process>>

\* the peer's next k bytes arrive, for every chunking of its stream
PeerSend(c) ==
    /\ process.running
    /\ Live(c)
    /\ conns[c].wire # <<>>
    /\ \E k \in 1..Len(conns[c].wire) :
          conns' = [conns EXCEPT ![c].reader = @ \o Take(conns[c].wire, k),
                                 ![c].wire = Skip(conns[c].wire, k)]
    /\ UNCHANGED <<directory, fs, process>>

\* the peer shuts down its sending side; what it had not sent is never sent
PeerClose(c) ==
    /\ process.running
    /\ Live(c)
    /\ ~conns[c].peerClosed
    /\ conns' = [conns EXCEPT ![c].peerClosed = TRUE,
                              ![c].truncated = (conns[c].wire # <<>>),
                              ![c].wire = <<>>]
    /\ UNCHANGED <<directory, fs, process>>

\* the stream end is observable once everything sent has been received
StreamEnded(conn) == conn.peerClosed /\ conn.wire = <<>>

(***************************************************************************)
(* main.rs:64-90: read_line and read_headers over the BufReader.           *)
(***************************************************************************)
\* AsyncBufReadExt::read_line resumes when a newline or the stream end is
\* observed
LineReady(conn) == FirstIndexOf(conn.reader, LF) # 0 \/ StreamEnded(conn)

\* what read_line appends to its buffer: the bytes up to and including the
\* newline, or all that is left before the stream end
NextLine(reader) ==
    IF FirstIndexOf(reader, LF) # 0 THEN Take(reader, FirstIndexOf(reader, LF))
    ELSE reader

AfterLine(reader) == Skip(reader, Len(NextLine(reader)))

\* main.rs:86-90 read_line: one line, trimmed at both ends
read_line(reader) == Trim(NextLine(reader))

\* main.rs:105
ReadRequestLine(c) ==
    /\ process.running
    /\ conns[c].pc = "Accepted"
    /\ LineReady(conns[c])
    /\ conns' = [conns EXCEPT ![c].request_line = read_line(conns[c].reader),
                              ![c].reader = AfterLine(conns[c].reader),
                              ![c].pc = "LineRead"]
    /\ UNCHANGED <<directory, fs, process>>

\* main.rs:75 line.splitn(2, ':'), first part
HeaderKey(line) ==
    IF FirstIndexOf(line, ":") = 0 THEN Trim(line)
    ELSE Trim(Take(line, FirstIndexOf(line, ":") - 1))

\* main.rs:77 second part of splitn(2, ':'): everything after the first colon
HeaderValue(line) == Trim(Skip(line, FirstIndexOf(line, ":")))

\* main.rs:67-81: one iteration of the loop of read_headers
ReadHeaderLine(c) ==
    /\ process.running
    /\ conns[c].pc = "LineRead"
    /\ LineReady(conns[c])
    /\ LET line_buffer == TrimEnd(NextLine(conns[c].reader))
           rest == AfterLine(conns[c].reader)
       IN  IF line_buffer = <<>>
           THEN conns' = [conns EXCEPT ![c].reader = rest,
                                       ![c].pc = "HeadersRead"]
           ELSE IF FirstIndexOf(line_buffer, ":") = 0
           THEN \* parts.next().unwrap() on None: the task panics, its
                \* streams are dropped
                conns' = [conns EXCEPT ![c].reader = <<>>,
                                       ![c].pc = "Panicked",
                                       ![c].error = "unwrap on None"]
           ELSE conns' = [conns EXCEPT
                             ![c].reader = rest,
                             ![c].headers = MapInsert(@, HeaderKey(line_buffer),
                                                      HeaderValue(line_buffer))]
    /\ UNCHANGED <<directory, fs, process>>

(***************************************************************************)
(* main.rs:50-62 and 108-118: the request line.                            *)
(***************************************************************************)
\* a try_from that takes every unknown method for GET
HttpMethod_try_from_lenient(value) ==
    IF EqIgnoreAsciiCase(value, S_POST) THEN "Post" ELSE "Get"

\* HttpMethod::try_from
HttpMethod_try_from(value) ==
    IF EqIgnoreAsciiCase(value, S_GET) THEN "Get"
    ELSE IF EqIgnoreAsciiCase(value, S_POST) THEN "Post"
    ELSE "Unrecognized"

\* the task ends with an error: handle_connection logs it and the streams
\* are dropped; what the BufWriter holds is never written
Fail(conn, error) ==
    [conn EXCEPT !.pc = "Failed", !.error = error, !.writer = <<>>,
                 !.reader = <<>>]

\* main.rs:108-118
ParseRequestLine(c) ==
    /\ process.running
    /\ conns[c].pc = "HeadersRead"
    /\ LET request_parts == SplitAsciiWhitespace(conns[c].request_line)
       IN  IF Len(request_parts) < 1
           THEN conns' = [conns EXCEPT ![c] = Fail(@, "Missing method")]
           ELSE IF HttpMethod_try_from(request_parts[1]) = "Unrecognized"
           THEN conns' = [conns EXCEPT ![c] = Fail(@, "HttpMethod is not recognized")]
           ELSE IF Len(request_parts) < 2
           THEN conns' = [conns EXCEPT ![c] = Fail(@, "Missing path")]
           ELSE conns' = [conns EXCEPT
                             ![c].method = HttpMethod_try_from(request_parts[1]),
                             ![c].path = request_parts[2],
                             ![c].http_version =
                                 IF Len(request_parts) >= 3 THEN request_parts[3]
                                 ELSE HTTP_1_1,
                             ![c].pc = "Parsed"]
    /\ UNCHANGED <<directory, fs, process>>

(***************************************************************************)
(* main.rs:173-286: process_request and the handlers.                      *)
(***************************************************************************)
\* main.rs:214-216
index == HttpResponse("Ok")

\* an echo that slices the path one byte too early
echo_keeps_slash(path) ==
    with_content(HttpResponse("Ok"),
                 PlainTextContent(Skip(path, Len(PREFIX_ECHO) - 1)))

\* main.rs:218-222
echo(path) ==
    with_content(HttpResponse("Ok"),
                 PlainTextContent(Skip(path, Len(PREFIX_ECHO))))

\* a user_agent that finds the header under any spelling of its key
user_agent_any_case(headers) ==
    IF \E k \in DOMAIN headers : EqIgnoreAsciiCase(k, KEY_USER_AGENT)
    THEN with_content(HttpResponse("Ok"),
                      PlainTextContent(headers[CHOOSE k \in DOMAIN headers :
                                                  EqIgnoreAsciiCase(k, KEY_USER_AGENT)]))
    ELSE HttpResponse("BadRequest")

\* main.rs:224-234
user_agent(headers) ==
    IF MapGet(headers, KEY_USER_AGENT).some
    THEN with_content(HttpResponse("Ok"),
                      PlainTextContent(MapGet(headers, KEY_USER_AGENT).value))
    ELSE HttpResponse("BadRequest")

\* a files handler without the existence check
files_without_exists_check(config, filesys, path) ==
    IF ~config.some THEN HttpResponse("InternalServerError")
    ELSE with_content(HttpResponse("Ok"),
                      FileContent(JoinPath(config.value, Skip(path, Len(PREFIX_FILES)))))

\* main.rs:236-253
files(config, filesys, path) ==
    IF ~config.some THEN HttpResponse("InternalServerError")
    ELSE LET file_path == JoinPath(config.value, Skip(path, Len(PREFIX_FILES)))
         IN  IF ~PathExists(filesys, file_path) THEN HttpResponse("NotFound")
             ELSE with_content(HttpResponse("Ok"), FileContent(file_path))

\* main.rs:176-208: the handler a request is dispatched to
Route(method, path) ==
    IF method = "Get"
    THEN IF path = PATH_INDEX THEN "index"
         ELSE IF path = PATH_USER_AGENT THEN "user_agent"
         ELSE IF StartsWith(path, PREFIX_ECHO) THEN "echo"
         ELSE IF StartsWith(path, PREFIX_FILES) THEN "files"
         ELSE "not_found"
    ELSE IF StartsWith(path, PREFIX_FILES) THEN "files_post"
         ELSE "not_found"

\* a dispatch whose default answer is 400
HandlerResponse_default_400(conn, config, filesys) ==
    CASE Route(conn.method, conn.path) = "index" -> index
      [] Route(conn.method, conn.path) = "user_agent" -> user_agent(conn.headers)
      [] Route(conn.method, conn.path) = "echo" -> echo(conn.path)
      [] Route(conn.method, conn.path) = "files" -> files(config, filesys, conn.path)
      [] OTHER -> HttpResponse("BadRequest")

\* main.rs:176-193, 200-201: the response of a handler that reads no body
HandlerResponse(conn, config, filesys) ==
    CASE Route(conn.method, conn.path) = "index" -> index
      [] Route(conn.method, conn.path) = "user_agent" -> user_agent(conn.headers)
      [] Route(conn.method, conn.path) = "echo" -> echo(conn.path)
      [] Route(conn.method, conn.path) = "files" -> files(config, filesys, conn.path)
      [] OTHER -> HttpResponse("NotFound")

\* a files_post that takes an unparsable Content-Length for 0
files_post_check_default_zero(config, headers) ==
    IF ~config.some
    THEN [kind |-> "respond", response |-> HttpResponse("InternalServerError"),
          content_length |-> 0]
    ELSE IF ~MapGet(headers, KEY_CONTENT_LENGTH).some
    THEN [kind |-> "respond", response |-> HttpResponse("BadRequest"),
          content_length |-> 0]
    ELSE IF ~ParseUsize(MapGet(headers, KEY_CONTENT_LENGTH).value).ok
    THEN [kind |-> "upload", response |-> HttpResponse("Created"),
          content_length |-> 0]
    ELSE [kind |-> "upload", response |-> HttpResponse("Created"),
          content_length |-> ParseUsize(MapGet(headers, KEY_CONTENT_LENGTH).value).value]

\* main.rs:255-271: how files_post goes on after looking at the configuration
\* and the Content-Length header: "respond" (with .response), "fail" (the
\* error of parse::<usize> is propagated by `?`) or "upload"
files_post_check(config, headers) ==
    IF ~config.some
    THEN [kind |-> "respond", response |-> HttpResponse("InternalServerError"),
          content_length |-> 0]
    ELSE IF ~MapGet(headers, KEY_CONTENT_LENGTH).some
    THEN [kind |-> "respond", response |-> HttpResponse("BadRequest"),
          content_length |-> 0]
    ELSE IF ~ParseUsize(MapGet(headers, KEY_CONTENT_LENGTH).value).ok
    THEN [kind |-> "fail", response |-> HttpResponse("BadRequest"),
          content_length |-> 0]
    ELSE [kind |-> "upload", response |-> HttpResponse("Created"),
          content_length |-> ParseUsize(MapGet(headers, KEY_CONTENT_LENGTH).value).value]

\* main.rs:24, 237, 256: CONFIG.read() dereferences the Lazy.  The first
\* access runs Args::parse(): clap prints its error and exits the process
\* when the command line is not valid.
ConfigRead(p) ==
    IF p.config_init THEN p
    ELSE IF p.args_ok THEN [p EXCEPT !.config_init = TRUE]
    ELSE [p EXCEPT !.running = FALSE]

\* main.rs:173-208 for every handler but the upload
Dispatch(c) ==
    /\ process.running
    /\ conns[c].pc = "Parsed"
    /\ Route(conns[c].method, conns[c].path) # "files_post"
    /\ process' = IF Route(conns[c].method, conns[c].path) = "files"
                  THEN ConfigRead(process) ELSE process
    /\ conns' = IF process'.running
                THEN [conns EXCEPT
                         ![c].response = HandlerResponse(conns[c], directory, fs),
                         ![c].pc = "Dispatched"]
                ELSE conns
    /\ UNCHANGED <<directory, fs>>

\* connection c writes the file at path (main.rs:273 File::create,
\* main.rs:279 write_all): every other connection that is between the length
\* query and the end of the copy of this file (main.rs:158-165) is marked
MarkRaced(cs, c, path) ==
    [d \in Conns |->
        IF /\ d # c
           /\ cs[d].pc \in {"HeadWritten", "Copying"}
           /\ cs[d].response.content.kind = "file"
           /\ cs[d].response.content.path = path
        THEN [cs[d] EXCEPT !.raced = TRUE]
        ELSE cs[d]]

\* main.rs:195-199, 255-275: files_post up to the creation of the file
DispatchUpload(c) ==
    /\ process.running
    /\ conns[c].pc = "Parsed"
    /\ Route(conns[c].method, conns[c].path) = "files_post"
    /\ process' = ConfigRead(process)
    /\ LET check == files_post_check(directory, conns[c].headers)
           dest_path == JoinPath(directory.value,
                                 Skip(conns[c].path, Len(PREFIX_FILES)))
       IN  CASE ~process'.running ->
                  /\ conns' = conns
                  /\ fs' = fs
             [] check.kind = "respond" ->
                  /\ conns' = [conns EXCEPT ![c].response = check.response,
                                            ![c].pc = "Dispatched"]
                  /\ fs' = fs
             [] check.kind = "fail" ->
                  /\ conns' = [conns EXCEPT ![c] = Fail(@, "ParseIntError")]
                  /\ fs' = fs
             [] check.kind = "upload" /\ dest_path \in Directories ->
                  \* File::create on a directory is an I/O error
                  /\ conns' = [conns EXCEPT ![c] = Fail(@, "Is a directory")]
                  /\ fs' = fs
             [] OTHER ->
                  /\ conns' = MarkRaced(
                                [conns EXCEPT ![c].dest_path = dest_path,
                                              ![c].content_length = check.content_length,
                                              ![c].bytes_read = 0,
                                              ![c].pc = "Uploading"],
                                c, dest_path)
                  /\ fs' = CreateFile(fs, dest_path)
    /\ UNCHANGED directory

\* ctx.reader.read(&mut buf) resumes when bytes are there or at stream end
ReadReady(conn) == conn.reader # <<>> \/ StreamEnded(conn)

\* a loop of files_post that ends after its first read, whatever was read
UploadDone_after_first_read(bytes_read, content_length) == TRUE

\* main.rs:280: the loop of files_post ends
UploadDone(bytes_read, content_length) == bytes_read >= content_length

\* main.rs:276-285: one iteration of the loop of files_post
UploadRead(c) ==
    /\ process.running
    /\ conns[c].pc = "Uploading"
    /\ ReadReady(conns[c])
    /\ LET num_read == Min(Len(conns[c].reader), BufSize)
           bytes_read == conns[c].bytes_read + num_read
       IN  /\ fs' = WriteFile(fs, conns[c].dest_path, conns[c].bytes_read,
                              Take(conns[c].reader, num_read))
           /\ conns' = MarkRaced(
                  [conns EXCEPT
                      ![c].reader = Skip(conns[c].reader, num_read),
                      ![c].bytes_read = bytes_read,
                      ![c].response =
                          IF UploadDone(bytes_read, conns[c].content_length)
                          THEN HttpResponse("Created") ELSE @,
                      ![c].pc =
                          IF UploadDone(bytes_read, conns[c].content_length)
                          THEN "Dispatched" ELSE "Uploading"],
                  c, IF num_read > 0 THEN conns[c].dest_path ELSE <<>>)
    /\ UNCHANGED <<directory, process>>

(***************************************************************************)
(* main.rs:143-171: RequestContext::send over the BufWriter.               *)
(***************************************************************************)
\* BufWriter::write of one piece: the buffer is written out first when the
\* piece does not fit, and a piece as large as the buffer bypasses it
BufWrite(w, piece) ==
    LET flushed == IF Len(w.writer) + Len(piece) > BufSize
                   THEN [writer |-> <<>>, sent |-> w.sent \o w.writer]
                   ELSE w
    IN  IF Len(piece) >= BufSize
        THEN [writer |-> flushed.writer, sent |-> flushed.sent \o piece]
        ELSE [writer |-> flushed.writer \o piece, sent |-> flushed.sent]

\* the writes of a sequence of pieces, in order
RECURSIVE WriteAll(_, _)
WriteAll(w, pieces) ==
    IF pieces = <<>> THEN w
    ELSE WriteAll(BufWrite(w, Head(pieces)), Tail(pieces))

\* main.rs:145-151: the status line, one piece per write
StatusLine(response) ==
    << HTTP_1_1 \o <<SP>> \o ToDec(StatusCode(response.status)) \o <<SP>>,
       IF response.status_message.some THEN response.status_message.value
       ELSE StatusDebug(response.status),
       CRLF >>

\* the orders in which a HashMap may iterate over its entries
Orderings(entries) ==
    IF entries = {} THEN {<<>>}
    ELSE {order \in [1..Cardinality(entries) -> entries] :
             \A i, j \in 1..Cardinality(entries) : order[i] = order[j] => i = j}

\* main.rs:153-155: the caller-supplied headers, in iteration order
HeaderLines(order) ==
    [i \in 1..Len(order) |-> order[i][1] \o <<":", SP>> \o order[i][2] \o CRLF]

\* a send that forgets the Content-Length header
ContentHeaders_without_length(content, declared_length) ==
    IF content.kind = "none" THEN <<>>
    ELSE << HDR_CONTENT_TYPE \o <<":", SP>> \o HttpContent_content_type(content) \o CRLF >>

\* main.rs:156-159: Content-Type and Content-Length of a present content
ContentHeaders(content, declared_length) ==
    IF content.kind = "none" THEN <<>>
    ELSE << HDR_CONTENT_TYPE \o <<":", SP>> \o HttpContent_content_type(content) \o CRLF,
            HDR_CONTENT_LENGTH \o <<":", SP>> \o ToDec(declared_length) \o CRLF >>

\* main.rs:145-160: everything send writes before the body
HeadPieces(response, order, declared_length) ==
    StatusLine(response) \o HeaderLines(order)
      \o ContentHeaders(response.content, declared_length) \o <<CRLF>>

\* the sizes fs::metadata may report for a directory
DirectorySizes == {0, 4096}

\* a content_length that measures the path of a file, not the file
DeclaredLengths_of_path(content, filesys) ==
    IF content.kind = "file" THEN {Len(content.path)}
    ELSE {Len(content.text)}

\* http.rs:103-105, 128-130: the values content_length() may return
DeclaredLengths(content, filesys) ==
    IF content.kind = "file" /\ content.path \in Directories THEN DirectorySizes
    ELSE IF content.kind = "file" THEN {Len(FileAt(filesys, content.path).data)}
    ELSE {Len(content.text)}

\* main.rs:145-160
SendHead(c) ==
    /\ process.running
    /\ conns[c].pc = "Dispatched"
    /\ LET response == conns[c].response
       IN  IF response.content.kind = "file" /\ ~PathExists(fs, response.content.path)
           THEN \* http.rs:129 fs::metadata(..).expect(..) panics
                conns' = [conns EXCEPT ![c].pc = "Panicked",
                                       ![c].error = "File doesn't exist?",
                                       ![c].writer = <<>>,
                                       ![c].reader = <<>>]
           ELSE \E order \in Orderings(response.headers) :
                \E declared_length \in DeclaredLengths(response.content, fs) :
                   LET w == WriteAll([writer |-> conns[c].writer, sent |-> conns[c].sent],
                                     HeadPieces(response, order, declared_length))
                   IN  conns' = [conns EXCEPT
                                    ![c].writer = w.writer,
                                    ![c].sent = w.sent,
                                    ![c].snapshot =
                                        IF response.content.kind = "file"
                                        THEN FileAt(fs, response.content.path).data
                                        ELSE <<>>,
                                    ![c].pc = IF response.content.kind = "none"
                                              THEN "BodyWritten" ELSE "HeadWritten"]
    /\ UNCHANGED <<directory, fs, process>>

\* main.rs:162-163, http.rs:107-110, 132-136: content.content()?
OpenContent(c) ==
    /\ process.running
    /\ conns[c].pc = "HeadWritten"
    /\ LET content == conns[c].response.content
       IN  IF content.kind = "file" /\ ~PathExists(fs, content.path)
           THEN conns' = [conns EXCEPT ![c] = Fail(@, "No such file or directory")]
           ELSE conns' = [conns EXCEPT ![c].content_pos = 0, ![c].pc = "Copying"]
    /\ UNCHANGED <<directory, fs, process>>

\* main.rs:165 tokio::io::copy: one read of the content reader and the write
\* of what was read; a read of zero bytes ends the copy
CopyChunk(c) ==
    /\ process.running
    /\ conns[c].pc = "Copying"
    /\ LET content == conns[c].response.content
           data == IF content.kind = "file" THEN FileAt(fs, content.path).data
                   ELSE content.text
           left == IF Len(data) > conns[c].content_pos
                   THEN Len(data) - conns[c].content_pos ELSE 0
           n == Min(left, BufSize)
           w == BufWrite([writer |-> conns[c].writer, sent |-> conns[c].sent],
                         SubSeq(data, conns[c].content_pos + 1, conns[c].content_pos + n))
       IN  IF content.kind = "file" /\ content.path \in Directories
           THEN \* reading a directory is an I/O error
                conns' = [conns EXCEPT ![c] = Fail(@, "Is a directory")]
           ELSE IF n = 0
           THEN conns' = [conns EXCEPT ![c].pc = "BodyWritten"]
           ELSE conns' = [conns EXCEPT ![c].writer = w.writer,
                                       ![c].sent = w.sent,
                                       ![c].content_pos = @ + n]
    /\ UNCHANGED <<directory, fs, process>>

\* main.rs:165 tokio::io::copy flushes the writer when it has written and
\* the next read of the content is pending
CopyFlush(c) ==
    /\ process.running
    /\ conns[c].pc = "Copying"
    /\ conns[c].content_pos > 0
    /\ conns[c].writer # <<>>
    /\ conns' = [conns EXCEPT ![c].sent = @ \o conns[c].writer,
                              ![c].writer = <<>>]
    /\ UNCHANGED <<directory, fs, process>>

\* main.rs:168-169 and 210-211, 129-130: flush, then the task ends
Flush(c) ==
    /\ process.running
    /\ conns[c].pc = "BodyWritten"
    /\ conns' = [conns EXCEPT ![c].sent = @ \o conns[c].writer,
                              ![c].writer = <<>>,
                              ![c].reader = <<>>,
                              ![c].pc = "ResponseSent"]
    /\ UNCHANGED <<directory, fs, process>>

\* main.rs:92-97: the task is over and its streams are dropped
Close(c) ==
    /\ process.running
    /\ conns[c].pc \in Terminal
    /\ conns' = [conns EXCEPT ![c] = IdleConn]
    /\ UNCHANGED <<directory, fs, process>>

(***************************************************************************)
(* Specification.                                                          *)
(***************************************************************************)
Next ==
    \E c \in Conns :
        \/ Accept(c)
        \/ PeerSend(c)
        \/ PeerClose(c)
        \/ ReadRequestLine(c)
        \/ ReadHeaderLine(c)
        \/ ParseRequestLine(c)
        \/ Dispatch(c)
        \/ DispatchUpload(c)
        \/ UploadRead(c)
        \/ SendHead(c)
        \/ OpenContent(c)
        \/ CopyChunk(c)
        \/ CopyFlush(c)
        \/ Flush(c)
        \/ Close(c)

Spec == Init /\ [][Next]_vars

(***************************************************************************)
(* What a peer observes: the response as it is read off the socket.        *)
(***************************************************************************)
(***************************************************************************)
(* The server in its environment: any command line, and other processes    *)
(* that remove files of the base directory.                                *)
(***************************************************************************)
\* a task holds the file at path open: http.rs:133 File::open for the copy,
\* main.rs:273 File::create for the upload
HeldOpen(path) ==
    \E c \in Conns :
        \/ conns[c].pc = "Copying" /\ conns[c].response.content.path = path
        \/ conns[c].pc = "Uploading" /\ conns[c].dest_path = path

\* another process removes a file that files (main.rs:246) or content_length
\* (http.rs:129) look at.  A removed file stays readable through an open
\* handle, so removals of a file that a task holds open change nothing for
\* that task and are left out.
RemoveFile(path) ==
    /\ process.running
    /\ fs[path].exists
    /\ ~HeldOpen(path)
    /\ fs' = [fs EXCEPT ![path] = AbsentFile]
    /\ UNCHANGED <<directory, conns, process>>

\* the server started with any command line, one that clap rejects included
EnvInit ==
    /\ fs \in [{FILE_F, FILE_G} -> {AbsentFile, RegularFile(OLD_DATA)}]
    /\ conns = [c \in Conns |-> IdleConn]
    /\ \/ /\ directory \in {NoneStr, SomeStr(BASE_DIR)}
          /\ process = Started(TRUE)
       \/ /\ directory = NoneStr
          /\ process = Started(FALSE)

EnvNext ==
    \/ Next
    \/ \E path \in {FILE_F, FILE_G} : RemoveFile(path)

EnvSpec == EnvInit /\ [][EnvNext]_vars

(***************************************************************************)
(* Two connections at a time on one file: a download and an upload.        *)
(***************************************************************************)
\* the requests of the concurrent workload: 10 (GET /files/f) and
\* 15 (POST /files/f with Content-Length: 2 and the body xy)
ConcMenu == {10, 15}

\* the request without its body
EncodeHead(r) == Take(Encode(r), Len(Encode(r)) - Len(r.body))

\* a base directory is configured, and /d/f exists or not
ConcInit ==
    /\ directory = SomeStr(BASE_DIR)
    /\ fs \in {[p \in {FILE_F, FILE_G} |-> AbsentFile],
               [p \in {FILE_F, FILE_G} |->
                   IF p = FILE_F THEN RegularFile(OLD_DATA) ELSE AbsentFile]}
    /\ conns = [c \in Conns |-> IdleConn]
    /\ process = Started(TRUE)

\* main.rs:29-32: accept a connection and spawn its task while at most one
\* other task is running; the lowest free slot is taken.  The header block
\* of the request has arrived when the task starts, the body follows.
ConcAccept(c) ==
    /\ process.running
    /\ conns[c].pc = "Idle"
    /\ \A d \in Conns : d < c => conns[d].pc # "Idle"
    /\ \A d, e \in Conns : (conns[d].pc # "Idle" /\ conns[e].pc # "Idle") => d = e
    /\ \E i \in ConcMenu :
          conns' = [conns EXCEPT ![c] =
                       [IdleConn EXCEPT !.pc = "Accepted", !.req = i,
                                        !.reader = EncodeHead(RequestMenu[i]),
                                        !.wire = RequestMenu[i].body]]
    /\ UNCHANGED <<directory, fs, process>>

ConcNext ==
    \E c \in Conns :
        \/ ConcAccept(c)
        \/ PeerSend(c)
        \/ ReadRequestLine(c)
        \/ ReadHeaderLine(c)
        \/ ParseRequestLine(c)
        \/ Dispatch(c)
        \/ DispatchUpload(c)
        \/ UploadRead(c)
        \/ SendHead(c)
        \/ OpenContent(c)
        \/ CopyChunk(c)
        \/ CopyFlush(c)
        \/ Flush(c)
        \/ Close(c)

ConcSpec == ConcInit /\ [][ConcNext]_vars

\* the request of the menu that the peer of c means to send
Req(c) == RequestMenu[conns[c].req]

\* the peer of c has a request and has not cut it short
Complete(c) == conns[c].req # 0 /\ ~conns[c].truncated

\* every header line of the request has the form `Key: Value`
WellFormedHeaders(r) ==
    \A i \in 1..Len(r.headers) :
        /\ TrimEnd(r.headers[i]) # <<>>
        /\ FirstIndexOf(r.headers[i], ":") # 0

\* the task of c is not suspended for ever: it can take its next step
CanStep(conn) ==
    CASE conn.pc \in {"Accepted", "LineRead"} -> LineReady(conn)
      [] conn.pc = "Uploading" -> ReadReady(conn)
      [] OTHER -> TRUE

\* the peer has sent everything it will ever send on c without closing, and
\* the task of c waits for more
Stalled(c) == Live(c) /\ conns[c].wire = <<>> /\ ~CanStep(conns[c])

\* position of the first CR LF CR LF in out, 0 when there is none
HeadEnd(out) ==
    IF \E i \in 1..(Len(out) - 3) : SubSeq(out, i, i + 3) = CRLF \o CRLF
    THEN CHOOSE i \in 1..(Len(out) - 3) :
            /\ SubSeq(out, i, i + 3) = CRLF \o CRLF
            /\ \A j \in 1..(i - 1) : SubSeq(out, j, j + 3) # CRLF \o CRLF
    ELSE 0

\* the status line and the header lines, each with its CR LF
RespHead(out) == Take(out, HeadEnd(out) + 1)

\* what follows the blank line
RespBody(out) == Skip(out, HeadEnd(out) + 3)

\* the lines of a text in which every line ends with CR LF
RECURSIVE LinesOf(_)
LinesOf(text) ==
    IF text = <<>> THEN <<>>
    ELSE LET end == CHOOSE i \in 1..(Len(text) - 1) :
                        /\ SubSeq(text, i, i + 1) = CRLF
                        /\ \A j \in 1..(i - 1) : SubSeq(text, j, j + 1) # CRLF
         IN  <<Take(text, end - 1)>> \o LinesOf(Skip(text, end + 1))

RespStatusLine(out) == LinesOf(RespHead(out))[1]

RespHeaders(out) == Tail(LinesOf(RespHead(out)))

\* the three digits of the status line, as a number
RespCode(out) == DecValue(SubSeq(out, Len(HTTP_1_1) + 2, Len(HTTP_1_1) + 4))

\* the values of the header lines `name: value` of the response, in order
RespHeaderValues(out, name) ==
    LET prefix == name \o <<":", SP>>
        RECURSIVE Values(_)
        Values(lines) ==
            IF lines = <<>> THEN <<>>
            ELSE (IF StartsWith(Head(lines), prefix)
                  THEN <<Skip(Head(lines), Len(prefix))>> ELSE <<>>)
                 \o Values(Tail(lines))
    IN  Values(RespHeaders(out))

\* a complete response with this status, no header at all and no body
BareResponse(out, code) ==
    /\ HeadEnd(out) # 0
    /\ RespCode(out) = code
    /\ RespHeaders(out) = <<>>
    /\ RespBody(out) = <<>>

\* a complete response with this status whose only headers are one
\* Content-Type and one Content-Length, in this order, and this body
ContentResponse(out, code, type, body) ==
    /\ HeadEnd(out) # 0
    /\ RespCode(out) = code
    /\ RespHeaders(out) = << HDR_CONTENT_TYPE \o <<":", SP>> \o type,
                             HDR_CONTENT_LENGTH \o <<":", SP>> \o ToDec(Len(body)) >>
    /\ RespBody(out) = body

(***************************************************************************)
(* Claims.                                                                 *)
(***************************************************************************)
\* the request is `GET /echo/<X>` with a well-formed header block
IsEchoRequest(r) ==
    r.method = S_GET /\ StartsWith(r.path, PREFIX_ECHO) /\ WellFormedHeaders(r)

EchoX(r) == Skip(r.path, Len(PREFIX_ECHO))

NoCRLF(x) == \A i \in 1..Len(x) : x[i] \notin {CR, LF}

NoWhitespace(x) == \A i \in 1..Len(x) : ~IsWhitespace(x[i])

\* the connection is answered 200 with the text/plain body X
EchoAnswered(c) ==
    /\ ~Stalled(c)
    /\ conns[c].pc \in Terminal =>
          /\ conns[c].pc = "ResponseSent"
          /\ ContentResponse(conns[c].sent, 200, TEXT_PLAIN, EchoX(Req(c)))

\* C1 as stated: every request GET /echo/<X> in which X has no CR or LF
\* (spaces and other whitespace allowed) is answered 200 with body X,
\* Content-Type text/plain and Content-Length the byte length of X.
C1_EchoAnyX ==
    \A c \in Conns :
        Complete(c) /\ IsEchoRequest(Req(c)) /\ NoCRLF(EchoX(Req(c)))
            => EchoAnswered(c)

\* C1, amended: every request GET /echo/<X> in which X has no whitespace at
\* all (X may be empty) is answered 200 with body X byte for byte,
\* Content-Type text/plain and Content-Length the byte length of X.
C1_Echo ==
    \A c \in Conns :
        Complete(c) /\ IsEchoRequest(Req(c)) /\ NoWhitespace(EchoX(Req(c)))
            => EchoAnswered(c)

C1_Witness ==
    \E c \in Conns :
        /\ Complete(c) /\ IsEchoRequest(Req(c))
        /\ EchoX(Req(c)) = <<"a", "b", "c">>
        /\ conns[c].pc = "ResponseSent"
        /\ RespBody(conns[c].sent) = <<"a", "b", "c">>

ECHO_ABC_RESPONSE ==
    <<"H", "T", "T", "P", "/", "1", ".", "1", " ", "2", "0", "0", " ", "O", "K", "\r", "\n",
      "C", "o", "n", "t", "e", "n", "t", "-", "T", "y", "p", "e", ":", " ",
      "t", "e", "x", "t", "/", "p", "l", "a", "i", "n", "\r", "\n",
      "C", "o", "n", "t", "e", "n", "t", "-", "L", "e", "n", "g", "t", "h", ":", " ", "3", "\r", "\n",
      "\r", "\n", "a", "b", "c">>

\* C2: the status line of every response is `HTTP/1.1 <code> <reason>` with
\* the status message when one was set and the reason phrase of the status
\* otherwise (200 gives `HTTP/1.1 200 OK`), and `GET /echo/abc` is answered
\* exactly `HTTP/1.1 200 OK\r\nContent-Type: text/plain\r\n
\* Content-Length: 3\r\n\r\nabc`.
C2_StatusLine ==
    \A c \in Conns :
        conns[c].pc = "ResponseSent" =>
            /\ RespStatusLine(conns[c].sent) =
                   HTTP_1_1 \o <<SP>> \o ToDec(StatusCode(conns[c].response.status))
                     \o <<SP>>
                     \o (IF conns[c].response.status_message.some
                         THEN conns[c].response.status_message.value
                         ELSE StatusInto(conns[c].response.status))
            /\ (Complete(c) /\ Req(c).method = S_GET
                  /\ Req(c).path = PREFIX_ECHO \o <<"a", "b", "c">>
                  /\ Req(c).headers = <<>>)
                 => conns[c].sent = ECHO_ABC_RESPONSE

\* C3: a response with content carries exactly one Content-Type and one
\* Content-Length, after the caller-supplied headers and right before the
\* blank line, with the type and the length of the content; a response
\* without content carries neither and has no body; the header block ends
\* with one blank line, and the body is what follows it.
C3_ContentHeaders ==
    \A c \in Conns :
        conns[c].pc = "ResponseSent" =>
            LET out == conns[c].sent
                response == conns[c].response
                n == Len(RespHeaders(out))
            IN  /\ HeadEnd(out) # 0
                /\ response.content.kind # "none" =>
                      /\ RespHeaderValues(out, HDR_CONTENT_TYPE)
                            = <<HttpContent_content_type(response.content)>>
                      /\ RespHeaderValues(out, HDR_CONTENT_LENGTH)
                            = <<ToDec(HttpContent_content_length(response.content, fs))>>
                      /\ n = Cardinality(response.headers) + 2
                      /\ StartsWith(RespHeaders(out)[n - 1], HDR_CONTENT_TYPE)
                      /\ StartsWith(RespHeaders(out)[n], HDR_CONTENT_LENGTH)
                      /\ RespBody(out) = HttpContent_content(response.content, fs)
                /\ response.content.kind = "none" =>
                      /\ RespHeaderValues(out, HDR_CONTENT_TYPE) = <<>>
                      /\ RespHeaderValues(out, HDR_CONTENT_LENGTH) = <<>>
                      /\ n = Cardinality(response.headers)
                      /\ RespBody(out) = <<>>

C3_Witness ==
    \E c \in Conns :
        /\ conns[c].pc = "ResponseSent"
        /\ conns[c].response.content.kind = "file"
        /\ RespBody(conns[c].sent) = OLD_DATA

\* the request is `POST /files/<remainder>` with a well-formed header block
IsUploadRequest(r) ==
    r.method = S_POST /\ StartsWith(r.path, PREFIX_FILES) /\ WellFormedHeaders(r)

\* the request is `GET /files/<name>` for a file name, with a well-formed
\* header block
IsFileGet(r) ==
    /\ r.method = S_GET /\ StartsWith(r.path, PREFIX_FILES)
    /\ Len(r.path) > Len(PREFIX_FILES)
    /\ WellFormedHeaders(r)

\* <base-dir>/<remainder> of a request for /files/<remainder>
FilePathOf(r) == BASE_DIR \o <<"/">> \o Skip(r.path, Len(PREFIX_FILES))

\* the upload carries `Content-Length: N` and exactly N body bytes
ExactUpload(r) ==
    /\ IsUploadRequest(r)
    /\ r.headers = << KEY_CONTENT_LENGTH \o <<":", SP>> \o ToDec(Len(r.body)) >>

\* C4: with a base directory, an upload of exactly N bytes under
\* `Content-Length: N` (N = 0 included) is answered 201 without body and the
\* file then holds the uploaded bytes, so that a later `GET /files/<name>` is
\* answered 200 with `Content-Length: N` and these bytes as body.
C4_RoundTrip ==
    \A c \in Conns :
        (Complete(c) /\ directory.some) =>
            /\ ExactUpload(Req(c)) =>
                  /\ ~Stalled(c)
                  /\ conns[c].pc \in Terminal =>
                        /\ conns[c].pc = "ResponseSent"
                        /\ BareResponse(conns[c].sent, 201)
                        /\ FileAt(fs, FilePathOf(Req(c))) = RegularFile(Req(c).body)
            /\ (IsFileGet(Req(c)) /\ FileAt(fs, FilePathOf(Req(c))).exists) =>
                  /\ ~Stalled(c)
                  /\ conns[c].pc \in Terminal =>
                        /\ conns[c].pc = "ResponseSent"
                        /\ ContentResponse(conns[c].sent, 200, APPLICATION_OCTET_STREAM,
                                           FileAt(fs, FilePathOf(Req(c))).data)

\* C5: the upload consumes exactly Content-Length bytes after the header
\* block and the file holds exactly those bytes; bytes sent beyond
\* Content-Length are never written to the file, however the stream is
\* chunked.
C5_ExactlyContentLength ==
    \A c \in Conns :
        (conns[c].req # 0 /\ IsUploadRequest(Req(c)) /\ conns[c].dest_path # <<>>) =>
            /\ conns[c].bytes_read <= conns[c].content_length
            /\ FileAt(fs, conns[c].dest_path).data
                  = Take(Req(c).body, conns[c].bytes_read)
            /\ conns[c].pc # "Uploading" =>
                  conns[c].bytes_read = conns[c].content_length

\* C6: `GET /files/<name>` is answered 500 without body when no base
\* directory is configured, 404 without Content-Type, Content-Length and
\* body when <base-dir>/<name> does not exist (whatever other files exist),
\* and 200 with Content-Type application/octet-stream and the bytes of the
\* file when it exists; the task neither fails nor panics.
C6_FilesGet ==
    \A c \in Conns :
        (Complete(c) /\ IsFileGet(Req(c))) =>
            /\ ~Stalled(c)
            /\ conns[c].pc \in Terminal =>
                  /\ conns[c].pc = "ResponseSent"
                  /\ ~directory.some => BareResponse(conns[c].sent, 500)
                  /\ (directory.some /\ ~FileAt(fs, FilePathOf(Req(c))).exists) =>
                        BareResponse(conns[c].sent, 404)
                  /\ (directory.some /\ FileAt(fs, FilePathOf(Req(c))).exists) =>
                        ContentResponse(conns[c].sent, 200, APPLICATION_OCTET_STREAM,
                                        FileAt(fs, FilePathOf(Req(c))).data)

\* a 404 for an absent file while another file exists
C6_Witness ==
    \E c \in Conns :
        /\ Complete(c) /\ IsFileGet(Req(c))
        /\ directory.some
        /\ FilePathOf(Req(c)) = FILE_G
        /\ ~FileAt(fs, FILE_G).exists /\ FileAt(fs, FILE_F).exists
        /\ conns[c].pc = "ResponseSent"
        /\ RespCode(conns[c].sent) = 404

\* the header lines of the request whose key, trimmed, is exactly `key`
LinesWithKey(r, key) ==
    {i \in 1..Len(r.headers) :
        Trim(Take(r.headers[i], FirstIndexOf(r.headers[i], ":") - 1)) = key}

\* C7: `GET /user-agent` is answered 400 without body, Content-Type and
\* Content-Length when the header mapping has no entry under the exact key
\* User-Agent (no header line of the request has this key in this case), and
\* otherwise 200 with the stored, trimmed, value as text/plain body and its
\* byte length as Content-Length.
C7_UserAgent ==
    \A c \in Conns :
        (Complete(c) /\ Req(c).method = S_GET /\ Req(c).path = PATH_USER_AGENT
           /\ WellFormedHeaders(Req(c))) =>
            /\ ~Stalled(c)
            /\ conns[c].pc \in Terminal =>
                  /\ conns[c].pc = "ResponseSent"
                  /\ (KEY_USER_AGENT \in DOMAIN conns[c].headers)
                        <=> (LinesWithKey(Req(c), KEY_USER_AGENT) # {})
                  /\ IF KEY_USER_AGENT \in DOMAIN conns[c].headers
                     THEN /\ conns[c].headers[KEY_USER_AGENT]
                                = Trim(conns[c].headers[KEY_USER_AGENT])
                          /\ ContentResponse(conns[c].sent, 200, TEXT_PLAIN,
                                             conns[c].headers[KEY_USER_AGENT])
                     ELSE BareResponse(conns[c].sent, 400)

\* the value ` u a ` was stored trimmed and echoed
C7_Witness ==
    \E c \in Conns :
        /\ Complete(c) /\ Req(c).path = PATH_USER_AGENT
        /\ conns[c].pc = "ResponseSent"
        /\ RespCode(conns[c].sent) = 200
        /\ RespBody(conns[c].sent) = <<"u", SP, "a">>

\* the method token is neither GET nor POST, compared case-insensitively
UnsupportedMethod(r) ==
    ~EqIgnoreAsciiCase(r.method, S_GET) /\ ~EqIgnoreAsciiCase(r.method, S_POST)

\* C8 as stated: a request whose method token is neither GET nor POST is
\* answered with a 400 response, and its task does not crash.
C8_UnsupportedMethodAnswered400 ==
    \A c \in Conns :
        (Complete(c) /\ UnsupportedMethod(Req(c)) /\ WellFormedHeaders(Req(c))) =>
            /\ ~Stalled(c)
            /\ conns[c].pc \in Terminal =>
                  /\ conns[c].pc = "ResponseSent"
                  /\ RespCode(conns[c].sent) = 400

\* C8, amended: a request whose method token is neither GET nor POST is
\* never dispatched and never answered: once its header block has been read
\* the task ends with the error of HttpMethod::try_from, not one byte is
\* written to the peer, and the task panics only on a header line without
\* colon.
C8_UnsupportedMethod ==
    \A c \in Conns :
        (Complete(c) /\ UnsupportedMethod(Req(c))) =>
            /\ ~Stalled(c)
            /\ conns[c].pc \in {"Accepted", "LineRead", "HeadersRead", "Failed", "Panicked"}
            /\ conns[c].sent = <<>> /\ conns[c].writer = <<>>
            /\ conns[c].pc = "Failed" => conns[c].error = "HttpMethod is not recognized"
            /\ conns[c].pc = "Panicked" => ~WellFormedHeaders(Req(c))

C8_Witness ==
    \E c \in Conns :
        /\ Complete(c) /\ UnsupportedMethod(Req(c))
        /\ conns[c].pc = "Failed"
        /\ conns[c].error = "HttpMethod is not recognized"

\* the path of the request matches no row of the dispatch table for its method
NoRoute(r) ==
    IF EqIgnoreAsciiCase(r.method, S_GET)
    THEN /\ r.path # PATH_INDEX /\ r.path # PATH_USER_AGENT
         /\ ~StartsWith(r.path, PREFIX_ECHO) /\ ~StartsWith(r.path, PREFIX_FILES)
    ELSE ~StartsWith(r.path, PREFIX_FILES)

\* C9 as stated, for the methods that reach the dispatch (GET and POST): a
\* request that matches no row of the dispatch table is answered 404 when
\* its method is GET and 400 otherwise, so that a POST to a path outside
\* /files/ is answered 400.
C9_DefaultGet404Else400 ==
    \A c \in Conns :
        (Complete(c) /\ WellFormedHeaders(Req(c)) /\ NoWhitespace(Req(c).path)
           /\ ~UnsupportedMethod(Req(c)) /\ NoRoute(Req(c))) =>
            /\ ~Stalled(c)
            /\ conns[c].pc \in Terminal =>
                  /\ conns[c].pc = "ResponseSent"
                  /\ BareResponse(conns[c].sent,
                                  IF EqIgnoreAsciiCase(Req(c).method, S_GET)
                                  THEN 404 ELSE 400)

\* C9, amended: a GET or a POST request that matches no row of the dispatch
\* table is answered 404 without body; a POST to a path outside /files/ is
\* answered 404, not 400.
C9_Default ==
    \A c \in Conns :
        (Complete(c) /\ WellFormedHeaders(Req(c)) /\ NoWhitespace(Req(c).path)
           /\ ~UnsupportedMethod(Req(c)) /\ NoRoute(Req(c))) =>
            /\ ~Stalled(c)
            /\ conns[c].pc \in Terminal =>
                  /\ conns[c].pc = "ResponseSent"
                  /\ BareResponse(conns[c].sent, 404)

C9_Witness ==
    \E c \in Conns :
        /\ Complete(c) /\ Req(c).method = S_POST /\ NoRoute(Req(c))
        /\ conns[c].pc = "ResponseSent"
        /\ RespCode(conns[c].sent) = 404

\* the Content-Length header of the request is missing or is not a
\* non-negative integer
BadContentLength(r) ==
    \/ LinesWithKey(r, KEY_CONTENT_LENGTH) = {}
    \/ \E i \in LinesWithKey(r, KEY_CONTENT_LENGTH) :
          ~ParseUsize(Trim(Skip(r.headers[i], FirstIndexOf(r.headers[i], ":")))).ok

\* C10: an upload without base directory is answered 500; with a base
\* directory, an upload whose Content-Length is missing or unparsable is
\* answered 400; the connection never ends without a response.
C10_UploadErrorsAnswered ==
    \A c \in Conns :
        (Complete(c) /\ IsUploadRequest(Req(c))) =>
            /\ ~directory.some =>
                  /\ ~Stalled(c)
                  /\ conns[c].pc \in Terminal =>
                        /\ conns[c].pc = "ResponseSent"
                        /\ BareResponse(conns[c].sent, 500)
            /\ (directory.some /\ BadContentLength(Req(c))) =>
                  /\ ~Stalled(c)
                  /\ conns[c].pc \in Terminal =>
                        /\ conns[c].pc = "ResponseSent"
                        /\ BareResponse(conns[c].sent, 400)

\* a header line of the request is not empty and has no colon
HasColonlessLine(r) ==
    \E i \in 1..Len(r.headers) :
        /\ TrimEnd(r.headers[i]) # <<>>
        /\ FirstIndexOf(r.headers[i], ":") = 0

\* C11: when a non-empty header line has no colon, header parsing ends with
\* a recoverable parse error: the connection ends Failed (error logged,
\* connection dropped) and its task never panics.
C11_MalformedHeaderFails ==
    \A c \in Conns :
        (Complete(c) /\ HasColonlessLine(Req(c))) =>
            /\ conns[c].pc # "Panicked"
            /\ conns[c].pc \in Terminal => conns[c].pc = "Failed"



\* C12: when the file behind a File content is removed after the existence
\* check of the handler and before the writer asks for its length or opens
\* it, the failure is a request-handling error: the length query does not
\* panic, the peer is answered with a 500-class response, and it never gets
\* a 200 header block with a missing or truncated body.
C12_RemovedFilePropagated ==
    \A c \in Conns :
        (conns[c].response.content.kind = "file"
           /\ conns[c].response.content.path \notin Directories) =>
            /\ conns[c].pc # "Panicked"
            /\ conns[c].pc \in Terminal =>
                  /\ conns[c].pc = "ResponseSent"
                  /\ HeadEnd(conns[c].sent) # 0
                  /\ \/ RespCode(conns[c].sent) >= 500
                     \/ /\ RespCode(conns[c].sent) = 200
                        /\ RespHeaderValues(conns[c].sent, HDR_CONTENT_LENGTH)
                             = <<ToDec(Len(RespBody(conns[c].sent)))>>

\* C13: no error is escalated to the end of the process: after any sequence
\* of connection outcomes, the first use of the configuration by a /files/
\* handler included, the process and its accept loop are still running.
C13_ProcessSurvives == process.running

\* C18, its timing: the shared configuration is initialized at startup,
\* before any connection is handled: whenever a connection has been
\* accepted, CONFIG holds its value already.
C18_ConfigInitializedAtStartup ==
    (\E c \in Conns : conns[c].pc # "Idle") => process.config_init



\* the steps of a connection before its handler has returned a response
BeforeDispatched == {"Accepted", "LineRead", "HeadersRead", "Parsed", "Uploading"}

\* the steps of RequestContext::send
Sending == {"HeadWritten", "Copying", "BodyWritten"}

\* the end of a task without response: an error returned, or a panic
Ended == {"Failed", "Panicked"}

\* the successors of each step of a connection; Idle is the closed
\* connection, Parsed is HeadersRead with the request line validated,
\* Uploading is the handler files_post consuming the body
C14_Successors(pc) ==
    CASE pc = "Idle" -> {"Accepted"}
      [] pc = "Accepted" -> {"LineRead"} \cup Ended
      [] pc = "LineRead" -> {"HeadersRead"} \cup Ended
      [] pc = "HeadersRead" -> {"Parsed"} \cup Ended
      [] pc = "Parsed" -> {"Uploading", "Dispatched"} \cup Ended
      [] pc = "Uploading" -> {"Dispatched"} \cup Ended
      [] pc = "Dispatched" -> {"HeadWritten", "BodyWritten"} \cup Ended
      [] pc = "HeadWritten" -> {"Copying"} \cup Ended
      [] pc = "Copying" -> {"BodyWritten"} \cup Ended
      [] pc = "BodyWritten" -> {"ResponseSent"} \cup Ended
      [] OTHER -> {"Idle"}

\* what holds at each step of connection c
C14_Order(c) ==
    \* no response byte exists before the handler has returned
    /\ conns[c].pc \in BeforeDispatched \cup {"Idle", "Dispatched"} =>
          conns[c].writer = <<>> /\ conns[c].sent = <<>>
    \* a handler runs on a validated request line and a complete header block
    /\ conns[c].pc \in {"Parsed", "Uploading", "Dispatched"} \cup Sending
                       \cup {"ResponseSent"} =>
          /\ conns[c].method \in {"Get", "Post"}
          /\ SplitAsciiWhitespace(conns[c].request_line)[2] = conns[c].path
    \* the response is complete exactly when the task ends with ResponseSent
    /\ conns[c].pc = "ResponseSent" =>
          conns[c].writer = <<>> /\ HeadEnd(conns[c].sent) # 0

\* what holds of each step of connection c
C14_Step(c) ==
    /\ conns'[c].pc # conns[c].pc => conns'[c].pc \in C14_Successors(conns[c].pc)
    \* the upload body is consumed when files_post returns its response
    /\ (conns[c].pc = "Uploading" /\ conns'[c].pc = "Dispatched") =>
          conns'[c].bytes_read >= conns[c].content_length
    \* the status line is written once, by the step that leaves Dispatched,
    \* and what is written is never taken back
    /\ (conns[c].pc \in Sending /\ conns'[c].pc \in Sending \cup {"ResponseSent"}) =>
          /\ Len(conns'[c].sent) >= Len(conns[c].sent)
          /\ Take(conns'[c].sent \o conns'[c].writer,
                  Len(conns[c].sent) + Len(conns[c].writer))
               = conns[c].sent \o conns[c].writer
    \* a task that ends before Dispatched has written nothing
    /\ (conns[c].pc \in BeforeDispatched /\ conns'[c].pc \in Ended) =>
          conns'[c].sent = <<>> /\ conns'[c].writer = <<>>

\* C14: every connection goes Accepted, LineRead, HeadersRead, Dispatched,
\* ResponseSent, Closed in this order, or ends as failed from any step (a
\* task ends by an error or by a panic): the request line is validated and
\* the headers are read before a handler runs, the handler has returned
\* (an upload body is consumed) before the first response byte is written,
\* one response at most is written, and a task that ends before Dispatched
\* has written no response byte.
C14_StateMachine ==
    /\ [](\A c \in Conns : C14_Order(c))
    /\ [][\A c \in Conns : C14_Step(c)]_vars

C14_Witness ==
    \E c \in Conns :
        /\ Complete(c) /\ IsUploadRequest(Req(c))
        /\ conns[c].pc = "ResponseSent"
        /\ conns[c].bytes_read > 0
        /\ RespCode(conns[c].sent) = 201



\* position of the first colon of a line that has one
FirstColon(line) ==
    CHOOSE i \in 1..Len(line) :
        line[i] = ":" /\ \A j \in 1..(i - 1) : line[j] # ":"

\* the text before the first colon, without surrounding whitespace
KeyOf(line) == Trim(SubSeq(line, 1, FirstColon(line) - 1))

\* everything after the first colon, without surrounding whitespace
ValueOf(line) == Trim(SubSeq(line, FirstColon(line) + 1, Len(line)))

\* the mapping of a block of `Key: Value` lines: each key is bound to the
\* value of the last line that has it
MappingOf(lines) ==
    [k \in {KeyOf(lines[i]) : i \in 1..Len(lines)} |->
        ValueOf(lines[CHOOSE i \in 1..Len(lines) :
                         /\ KeyOf(lines[i]) = k
                         /\ \A j \in (i + 1)..Len(lines) : KeyOf(lines[j]) # k])]

\* C15: read_headers reads the lines up to the first empty line and returns
\* a mapping in which every line read binds the text before its first colon
\* to everything after it (later colons kept), both without surrounding
\* whitespace and the key in its own case; of several lines with the same
\* key the last one wins.  What follows the empty line is left unread.
C15_ReadHeaders ==
    \A c \in Conns :
        (Complete(c) /\ WellFormedHeaders(Req(c))
           /\ conns[c].pc \notin {"Idle", "Accepted", "LineRead"}) =>
            /\ conns[c].headers = MappingOf(Req(c).headers)
            /\ conns[c].pc = "HeadersRead" =>
                  conns[c].reader \o conns[c].wire = Req(c).body

C15_Witness ==
    \E c \in Conns :
        /\ Complete(c) /\ WellFormedHeaders(Req(c))
        /\ conns[c].pc = "HeadersRead"
        /\ \E i, j \in 1..Len(Req(c).headers) :
              /\ i < j
              /\ KeyOf(Req(c).headers[i]) = KeyOf(Req(c).headers[j])
              /\ ValueOf(Req(c).headers[i]) # ValueOf(Req(c).headers[j])
              /\ FirstIndexOf(ValueOf(Req(c).headers[j]), ":") # 0
              /\ conns[c].headers[KeyOf(Req(c).headers[j])] = ValueOf(Req(c).headers[j])

\* the loop of files_post can neither read a byte nor end: the stream has
\* ended, nothing is buffered, and fewer than Content-Length bytes have been
\* read; every further iteration reads 0 bytes and leaves the task where it is
LoopsForever(c) ==
    /\ conns[c].pc = "Uploading"
    /\ StreamEnded(conns[c])
    /\ conns[c].reader = <<>>
    /\ ~UploadDone(conns[c].bytes_read, conns[c].content_length)

\* C16: once the peer has closed its sending side the task of the
\* connection ends after finitely many steps, wherever the stream end is
\* observed (before the request line, inside the header block, inside an
\* upload body shorter than Content-Length): it is never in a state from
\* which it loops for ever.
C16_TerminatesAtStreamEnd ==
    \A c \in Conns :
        (Live(c) /\ StreamEnded(conns[c])) =>
            /\ CanStep(conns[c])
            /\ ~LoopsForever(c)



\* connection c carries an upload that files_post refuses: there is no base
\* directory, or the Content-Length header is missing or is not a number
RefusedUpload(c) ==
    /\ conns[c].pc \notin {"Idle", "Accepted", "LineRead", "HeadersRead"}
    /\ conns[c].method = "Post"
    /\ StartsWith(conns[c].path, PREFIX_FILES)
    /\ \/ ~directory.some
       \/ KEY_CONTENT_LENGTH \notin DOMAIN conns[c].headers
       \/ LET value == conns[c].headers[KEY_CONTENT_LENGTH]
          IN  \/ value \in {<<>>, <<"+">>}
              \/ \E i \in 1..Len(value) :
                    ~IsDigit(value[i]) /\ ~(i = 1 /\ value[i] = "+")

\* a refused upload has no destination file and has read no body byte
C19_Refused(c) ==
    RefusedUpload(c) =>
        /\ conns[c].dest_path = <<>>
        /\ conns[c].bytes_read = 0
        /\ conns[c].pc \in {"Parsed", "Failed"} \/ conns[c].response.status
                                                     \in {"InternalServerError", "BadRequest"}

\* what holds of each step of connection c
C19_Step(c) ==
    \* no step of a refused upload touches the filesystem, and the refusal
    \* itself takes nothing from the stream
    /\ RefusedUpload(c) => fs' = fs
    /\ (RefusedUpload(c) /\ conns[c].pc = "Parsed" /\ conns'[c].pc = "Dispatched") =>
          conns'[c].reader = conns[c].reader
    \* a file is created, truncated or written only for an upload whose
    \* Content-Length has been parsed
    /\ (fs' # fs /\ conns'[c].pc # "Idle") =>
          /\ conns'[c].dest_path # <<>>
          /\ directory.some
          /\ ParseUsize(conns[c].headers[KEY_CONTENT_LENGTH]).ok

\* C19: an upload that is refused leaves the filesystem as it is: when
\* files_post answers 500 (no base directory) or 400 (no Content-Length), or
\* fails on an unparsable Content-Length, no file is created or truncated
\* and no body byte is taken from the stream; the destination file is
\* created or truncated only after a Content-Length has been parsed.
C19_RefusedUploadFrame ==
    /\ [](\A c \in Conns : C19_Refused(c))
    /\ [][\A c \in Conns : C19_Step(c)]_vars

C19_Witness ==
    \E c \in Conns :
        /\ RefusedUpload(c)
        /\ directory.some
        /\ conns[c].pc = "Failed" /\ conns[c].error = "ParseIntError"
        /\ JoinPath(directory.value, Skip(conns[c].path, Len(PREFIX_FILES))) = FILE_F
        /\ fs[FILE_F] = RegularFile(OLD_DATA)





\* the contents a file of the model can hold at some moment: its content at
\* the start, or a part of an upload body written so far
HeldContents ==
    {OLD_DATA} \cup UNION {{Take(RequestMenu[i].body, k) :
                                k \in 0..Len(RequestMenu[i].body)} :
                              i \in 1..Len(RequestMenu)}

\* connection c has sent a complete 200 response to `GET /files/<name>`
FileAnswered200(c) ==
    /\ Complete(c) /\ IsFileGet(Req(c))
    /\ conns[c].pc = "ResponseSent"
    /\ RespCode(conns[c].sent) = 200

\* C17 as stated: in every 200 response to GET /files/<name> the value of
\* Content-Length is the number of body bytes written and the body is a
\* content the file held at some moment, also when a POST /files/<name> for
\* the same name runs at the same time on another connection.
C17_FileResponseAtomic ==
    \A c \in Conns :
        FileAnswered200(c) =>
            /\ RespHeaderValues(conns[c].sent, HDR_CONTENT_LENGTH)
                 = <<ToDec(Len(RespBody(conns[c].sent)))>>
            /\ RespBody(conns[c].sent) \in HeldContents

\* C17, amended: in every 200 response to GET /files/<name> during which no
\* other connection has created, truncated or written the file (from the
\* length query to the end of the copy) the value of Content-Length is the
\* number of body bytes written and the body is the content the file held
\* when its length was queried; an upload that runs at the same time is not
\* coordinated with the download.
C17_FileResponse ==
    \A c \in Conns :
        (FileAnswered200(c) /\ ~conns[c].raced) =>
            /\ RespHeaderValues(conns[c].sent, HDR_CONTENT_LENGTH)
                 = <<ToDec(Len(RespBody(conns[c].sent)))>>
            /\ RespBody(conns[c].sent) = conns[c].snapshot

C17_Witness ==
    \E c, d \in Conns :
        /\ FileAnswered200(c) /\ ~conns[c].raced
        /\ conns[d].pc = "Uploading"
        /\ conns[d].dest_path = conns[c].response.content.path
        /\ conns[d].bytes_read = 1
        /\ RespBody(conns[c].sent) = <<"x">>

====
